---------------------------- MODULE Spec2Model ----------------------------
(***************************************************************************)
(* Model of the evaluation assignment and resumption engine of app.py:     *)
(* load_items (dataset reconciliation, allow-list selection, participant   *)
(* shuffle), the side assignment and verdict normalisation of main, the    *)
(* progress tracker load_user_data / get_next_index and the response       *)
(* recorder save_response / init_sheet_header over the worksheet.          *)
(*                                                                         *)
(* Python strings are sequences of one-character strings, so that strip,   *)
(* str, int, sorted and the seed strings are computed, not assumed.        *)
(* Japanese literals of the source are rendered in ASCII.                  *)
(***************************************************************************)
EXTENDS Integers, Sequences, FiniteSets, TLC

VARIABLES
    sheet,      \* the worksheet: a sequence of rows, each a sequence of cell texts
    session,    \* st.session_state of the browser session: current_user_id, current_index
    view,       \* what the last script run rendered (df_items, item shown, side)
    now,        \* the clock read by datetime.now()
    last,       \* the last form submission as the handler saw it
    call,       \* arguments of a direct call of load_items / load_user_data / the normaliser
    ret         \* result of that call

vars == <<sheet, session, view, now, last, call, ret>>

(***************************************************************************)
(* Characters and Python string primitives                                 *)
(***************************************************************************)

\* The characters used, in increasing code point order.
CodeOrder ==
    << " ", "+", "-", ".", "0", "1", "2", "3", "4", "5", "6", "7", "8", "9",
       "A", "E", "F", "I", "N", "T", "Y",
       "_", "a", "b", "c", "d", "e", "f", "i", "l", "n", "o", "r", "s", "t", "u", "x", "y", "z" >>

CodePoint(c) == CHOOSE k \in 1..Len(CodeOrder) : CodeOrder[k] = c

DigitChars == {"0", "1", "2", "3", "4", "5", "6", "7", "8", "9"}

DigitVal(c) == CodePoint(c) - CodePoint("0")

DigitChar(d) == CodeOrder[CodePoint("0") + d]

\* Python's None and objects of the Python types that travel through the program.
\* s is the text of a str and repr() of a float; n is the value of an int or a
\* bool, and 0 for a float that is zero.
None == [t |-> "none", s |-> <<>>, n |-> 0]
StrV(s) == [t |-> "str", s |-> s, n |-> 0]
IntV(n) == [t |-> "int", s |-> <<>>, n |-> n]
BoolV(b) == [t |-> "bool", s |-> <<>>, n |-> IF b THEN 1 ELSE 0]

\* x < y on Python strings: code point lexicographic order
RECURSIVE StrLess(_, _)
StrLess(a, b) ==
    IF b = <<>> THEN FALSE
    ELSE IF a = <<>> THEN TRUE
    ELSE IF a[1] # b[1] THEN CodePoint(a[1]) < CodePoint(b[1])
    ELSE StrLess(Tail(a), Tail(b))

\* sorted(S) for a set S of strings
RECURSIVE Sorted(_)
Sorted(S) ==
    IF S = {} THEN <<>>
    ELSE LET m == CHOOSE x \in S : \A y \in S \ {x} : StrLess(x, y)
         IN  <<m>> \o Sorted(S \ {m})

RECURSIVE LStrip(_)
LStrip(s) == IF s # <<>> /\ s[1] = " " THEN LStrip(Tail(s)) ELSE s

RECURSIVE RStrip(_)
RStrip(s) ==
    IF s # <<>> /\ s[Len(s)] = " " THEN RStrip(SubSeq(s, 1, Len(s) - 1)) ELSE s

\* str.strip()
Strip(s) == RStrip(LStrip(s))

\* decimal digits of a natural number
RECURSIVE NatToStr(_)
NatToStr(n) ==
    IF n < 10 THEN <<DigitChar(n)>>
    ELSE NatToStr(n \div 10) \o <<DigitChar(n % 10)>>

\* value of a non-empty digit string
RECURSIVE DigitsToNat(_)
DigitsToNat(s) ==
    IF s = <<>> THEN 0
    ELSE 10 * DigitsToNat(SubSeq(s, 1, Len(s) - 1)) + DigitVal(s[Len(s)])

AllDigits(s) == s # <<>> /\ \A k \in 1..Len(s) : s[k] \in DigitChars

\* the literal with its sign removed
Unsigned(s) == IF s # <<>> /\ s[1] \in {"+", "-"} THEN Tail(s) ELSE s

Negative(s) == s # <<>> /\ s[1] = "-"

\* int(s) accepts: optional blanks, optional sign, digits
IsIntLiteral(s) == AllDigits(Unsigned(Strip(s)))

IntLiteralValue(s) ==
    LET v == DigitsToNat(Unsigned(Strip(s)))
    IN  IF Negative(Strip(s)) THEN 0 - v ELSE v

IsDigitChar(c) == c \in DigitChars

\* digits with single underscores between them
DigitPart(u) ==
    /\ u # <<>>
    /\ u[1] \in DigitChars
    /\ u[Len(u)] \in DigitChars
    /\ \A k \in 1..Len(u) : u[k] \in DigitChars \cup {"_"}
    /\ \A k \in 1..(Len(u) - 1) : ~(u[k] = "_" /\ u[k + 1] = "_")

\* int(s) on a string also accepts single underscores between digits
IsIntText(s) == DigitPart(Unsigned(Strip(s)))

IntTextValue(s) ==
    LET v == DigitsToNat(SelectSeq(Unsigned(Strip(s)), IsDigitChar))
    IN  IF Negative(Strip(s)) THEN 0 - v ELSE v

Abs(n) == IF n < 0 THEN 0 - n ELSE n

\* str.lower() on the letters of float literals
LowerChar(c) ==
    CASE c = "A" -> "a" [] c = "E" -> "e" [] c = "F" -> "f" [] c = "I" -> "i"
      [] c = "N" -> "n" [] c = "T" -> "t" [] c = "Y" -> "y" [] OTHER -> c

Lower(s) == [k \in 1..Len(s) |-> LowerChar(s[k])]

Zeros(k) == [i \in 1..k |-> "0"]

RECURSIVE DropLeadingZeros(_)
DropLeadingZeros(d) == IF d # <<>> /\ d[1] = "0" THEN DropLeadingZeros(Tail(d)) ELSE d

RECURSIVE DropTrailingZeros(_)
DropTrailingZeros(d) ==
    IF d # <<>> /\ d[Len(d)] = "0" THEN DropTrailingZeros(SubSeq(d, 1, Len(d) - 1)) ELSE d

\* position of the first c in s, 0 when there is none
FirstIndex(s, c) ==
    IF \E k \in 1..Len(s) : s[k] = c
    THEN CHOOSE k \in 1..Len(s) : s[k] = c /\ \A j \in 1..(k - 1) : s[j] # c
    ELSE 0

\* the exponent of repr(): sign and at least two digits
ExponentText(x) ==
    (IF x < 0 THEN <<"-">> ELSE <<"+">>)
        \o (IF Abs(x) < 10 THEN <<"0">> ELSE <<>>) \o NatToStr(Abs(x))

\* repr() of the float 0.d1...dk x 10^point (d1 # 0, dk # 0; no digits: zero):
\* the shortest decimal that reads back as the float, in fixed notation when
\* 1e-4 <= |x| < 1e16 and with an exponent otherwise
FloatRepr(negative, digits, point) ==
    (IF negative THEN <<"-">> ELSE <<>>) \o
    (IF digits = <<>> THEN <<"0", ".", "0">>
     ELSE IF point - 1 < 0 - 4 \/ point - 1 >= 16 THEN
         <<digits[1]>> \o (IF Len(digits) > 1 THEN <<".">> \o Tail(digits) ELSE <<>>)
             \o <<"e">> \o ExponentText(point - 1)
     ELSE IF point <= 0 THEN <<"0", ".">> \o Zeros(0 - point) \o digits
     ELSE IF point >= Len(digits) THEN digits \o Zeros(point - Len(digits)) \o <<".", "0">>
     ELSE SubSeq(digits, 1, point) \o <<".">> \o SubSeq(digits, point + 1, Len(digits)))

\* float("inf"), float("-inf"), float("nan")
InfV(negative) ==
    [t |-> "float", s |-> (IF negative THEN <<"-">> ELSE <<>>) \o <<"i", "n", "f">>, n |-> 1,
     kind |-> "inf", negative |-> negative, digits |-> <<>>, point |-> 0]

NanV ==
    [t |-> "float", s |-> <<"n", "a", "n">>, n |-> 1,
     kind |-> "nan", negative |-> FALSE, digits |-> <<>>, point |-> 0]

RECURSIVE Pow(_, _)
Pow(b, k) == IF k = 0 THEN 1 ELSE b * Pow(b, k - 1)

Positive(k) == IF k > 0 THEN k ELSE 0

\* a / b rounded to the nearest integer, a tie to the even one
RoundHalfEven(a, b) ==
    IF 2 * (a % b) < b \/ (2 * (a % b) = b /\ (a \div b) % 2 = 0) THEN a \div b
    ELSE (a \div b) + 1

\* A double is m x 2^q with m < 2^53 and q from -1074 (the subnormal grid) to 971.
MinExponent == 0 - 1074
MaxExponent == 971

\* the decimal n x 10^e counted in units of 2^q is ScaledNum / ScaledDen
ScaledNum(n, e, q) == n * Pow(10, Positive(e)) * Pow(2, Positive(0 - q))

ScaledDen(e, q) == Pow(10, Positive(0 - e)) * Pow(2, Positive(q))

\* The double nearest to the decimal n x 10^e, n > 0 (IEEE 754 round to nearest,
\* ties to even): [inf, m, q], the value m x 2^q.  q is the exponent at which the
\* decimal has 53 bits, or the least one; a decimal of 2^1024 - 2^970 or more is
\* rounded to infinity, one of 2^-1075 or less to zero (m = 0).
NearestDouble(n, e) ==
    LET fits == {q \in MinExponent..MaxExponent :
                    /\ ScaledNum(n, e, q) < ScaledDen(e, q) * Pow(2, 53)
                    /\ q = MinExponent \/ ScaledNum(n, e, q) >= ScaledDen(e, q) * Pow(2, 52)}
        q == CHOOSE q \in fits : TRUE
        m == RoundHalfEven(ScaledNum(n, e, q), ScaledDen(e, q))
    IN  IF fits = {} THEN [inf |-> TRUE, m |-> 0, q |-> 0]
        ELSE [inf |-> q = MaxExponent /\ m = Pow(2, 53), m |-> m, q |-> q]

\* the doubles a and b are the same number
SameDouble(a, b) ==
    /\ a.inf = b.inf
    /\ a.m * Pow(2, a.q - MinExponent) = b.m * Pow(2, b.q - MinExponent)

\* the integer part of (the double d) / 10^k
DecimalFloor(d, k) ==
    (d.m * Pow(2, Positive(d.q)) * Pow(10, Positive(0 - k)))
        \div (Pow(2, Positive(0 - d.q)) * Pow(10, Positive(k)))

\* the two decimals c x 10^k of n significant digits next to the double d (m > 0)
Neighbours(d, n) ==
    LET k == CHOOSE k \in (0 - 345)..310 :
                 Pow(10, n - 1) <= DecimalFloor(d, k) /\ DecimalFloor(d, k) < Pow(10, n)
    IN  { [c |-> DecimalFloor(d, k), k |-> k], [c |-> DecimalFloor(d, k) + 1, k |-> k] }

\* those of them that float() reads back as d
ReadBack(d, n) == {x \in Neighbours(d, n) : SameDouble(NearestDouble(x.c, x.k), d)}

\* the distance of the decimal x from the double d, in units of
\* 2^min(d.q, 0) x 10^min(x.k, 0)
Distance(d, x) ==
    Abs(x.c * Pow(10, Positive(x.k)) * Pow(2, Positive(0 - d.q))
            - d.m * Pow(2, Positive(d.q)) * Pow(10, Positive(0 - x.k)))

\* The decimal of repr(d) for a double d (m > 0): the shortest decimal that
\* float() reads back as d; of two of that length the nearer to d, of two
\* equally near the even one.
ShortestDecimal(d) ==
    LET n == CHOOSE n \in 1..17 : ReadBack(d, n) # {} /\ \A j \in 1..(n - 1) : ReadBack(d, j) = {}
    IN  CHOOSE x \in ReadBack(d, n) :
            \A y \in ReadBack(d, n) \ {x} :
                \/ Distance(d, x) < Distance(d, y)
                \/ Distance(d, x) = Distance(d, y) /\ x.c % 2 = 0

\* the float whose repr() has the digits 0.d1...dk x 10^point (d1 # 0, dk # 0),
\* and the zero float (no digits)
FloatWritten(negative, digits, point) ==
    [t |-> "float", s |-> FloatRepr(negative, digits, point), n |-> IF digits = <<>> THEN 0 ELSE 1,
     kind |-> "finite", negative |-> negative, digits |-> digits, point |-> point]

\* the float of a double d that is finite and not zero
FloatShortest(negative, x) ==
    FloatWritten(negative, DropTrailingZeros(NatToStr(x.c)), Len(NatToStr(x.c)) + x.k)

\* The float nearest to the decimal 0.digits x 10^point (digits without leading
\* or trailing zeros).  A decimal of 10^309 or more is beyond the largest double,
\* one below 10^-324 is below half the least double; a decimal of up to 15
\* significant digits between 10^-307 and 10^308 is the shortest decimal that
\* reads back as its double, so repr() returns it as written.  Every other
\* decimal is rounded to its double.
FloatNormal(negative, digits, point) ==
    IF digits = <<>> \/ point < 0 - 324 THEN FloatWritten(negative, <<>>, 0)
    ELSE IF point > 309 THEN InfV(negative)
    ELSE IF Len(digits) <= 15 /\ point >= 0 - 306 /\ point <= 308
    THEN FloatWritten(negative, digits, point)
    ELSE LET d == NearestDouble(DigitsToNat(digits), point - Len(digits))
         IN  IF d.inf THEN InfV(negative)
             ELSE IF d.m = 0 THEN FloatWritten(negative, <<>>, 0)
             ELSE FloatShortest(negative, ShortestDecimal(d))

\* the same for digits with leading and trailing zeros
FloatOf(negative, digits, point) ==
    FloatNormal(negative, DropTrailingZeros(DropLeadingZeros(digits)),
                point - (Len(digits) - Len(DropLeadingZeros(digits))))

\* a float with one fractional digit, given in tenths
FloatV(tenths) == FloatOf(tenths < 0, NatToStr(Abs(tenths)), Len(NatToStr(Abs(tenths))) - 1)

\* the parts of a decimal literal u (no sign, lower case): the text before the
\* exponent, the exponent, and the integer and fraction digits of the former
Mantissa(u) == IF FirstIndex(u, "e") = 0 THEN u ELSE SubSeq(u, 1, FirstIndex(u, "e") - 1)

ExponentPart(u) ==
    IF FirstIndex(u, "e") = 0 THEN <<>> ELSE SubSeq(u, FirstIndex(u, "e") + 1, Len(u))

IntegerPart(m) == IF FirstIndex(m, ".") = 0 THEN m ELSE SubSeq(m, 1, FirstIndex(m, ".") - 1)

FractionPart(m) ==
    IF FirstIndex(m, ".") = 0 THEN <<>> ELSE SubSeq(m, FirstIndex(m, ".") + 1, Len(m))

\* the decimal literals of float(): digits [. [digits]] or . digits, then an
\* optional exponent e [sign] digits
IsDecimalText(u) ==
    /\ FirstIndex(u, "e") = 0 \/ DigitPart(Unsigned(ExponentPart(u)))
    /\ IF FirstIndex(Mantissa(u), ".") = 0 THEN DigitPart(Mantissa(u))
       ELSE /\ IntegerPart(Mantissa(u)) = <<>> \/ DigitPart(IntegerPart(Mantissa(u)))
            /\ FractionPart(Mantissa(u)) = <<>> \/ DigitPart(FractionPart(Mantissa(u)))
            /\ IntegerPart(Mantissa(u)) # <<>> \/ FractionPart(Mantissa(u)) # <<>>

\* the value of an exponent text
ExponentValue(e) ==
    LET v == DigitsToNat(SelectSeq(Unsigned(e), IsDigitChar))
    IN  IF e = <<>> THEN 0 ELSE IF Negative(e) THEN 0 - v ELSE v

\* float(s) accepts s: blanks, a sign, then inf, infinity, nan in any case or a
\* decimal literal
IsFloatLiteral(s) ==
    LET u == Lower(Unsigned(Strip(s)))
    IN  \/ u \in { <<"i", "n", "f">>, <<"i", "n", "f", "i", "n", "i", "t", "y">>, <<"n", "a", "n">> }
        \/ IsDecimalText(u)

\* float(s)
FloatLiteralValue(s) ==
    LET u == Lower(Unsigned(Strip(s)))
        ip == SelectSeq(IntegerPart(Mantissa(u)), IsDigitChar)
        fp == SelectSeq(FractionPart(Mantissa(u)), IsDigitChar)
    IN  IF u \in { <<"i", "n", "f">>, <<"i", "n", "f", "i", "n", "i", "t", "y">> }
        THEN InfV(Negative(Strip(s)))
        ELSE IF u = <<"n", "a", "n">> THEN NanV
        ELSE FloatOf(Negative(Strip(s)), ip \o fp, Len(ip) + ExponentValue(ExponentPart(u)))

\* float(s) is infinite: the literals of infinity, and decimals beyond the range
IsInfLiteral(s) == IsFloatLiteral(s) /\ FloatLiteralValue(s).kind = "inf"

\* str(v)
PyStr(v) ==
    CASE v.t = "str" -> v.s
      [] v.t = "int" -> (IF v.n < 0 THEN <<"-">> ELSE <<>>) \o NatToStr(Abs(v.n))
      [] v.t = "float" -> v.s
      [] v.t = "bool" -> IF v.n = 1 THEN <<"T", "r", "u", "e">> ELSE <<"F", "a", "l", "s", "e">>
      [] OTHER -> <<"N", "o", "n", "e">>

\* bool(v): what `or` and `if` test
Truthy(v) ==
    CASE v.t = "str" -> v.s # <<>>
      [] v.t = "none" -> FALSE
      [] OTHER -> v.n # 0

\* v or w
PyOr(v, w) == IF Truthy(v) THEN v ELSE w

\* int(x) of a finite float x: the integer part of the double.  Below 10^15 the
\* doubles are finer than the integers and the integer part is that of repr(x).
FloatTruncated(v) ==
    LET d == NearestDouble(DigitsToNat(v.digits), v.point - Len(v.digits))
        k == IF v.point <= 15 THEN DigitsToNat(SubSeq(v.digits \o Zeros(v.point), 1, v.point))
             ELSE (d.m * Pow(2, Positive(d.q))) \div Pow(2, Positive(0 - d.q))
    IN  IF v.point <= 0 THEN 0 ELSE IF v.negative THEN 0 - k ELSE k

\* int(v): [ok, n, raises]; raises is the exception when ok is FALSE:
\* ValueError (a text that is no integer, a nan), OverflowError (an infinite
\* float), TypeError (None)
PyInt(v) ==
    CASE v.t = "int" -> [ok |-> TRUE, n |-> v.n, raises |-> "none"]
      [] v.t = "bool" -> [ok |-> TRUE, n |-> v.n, raises |-> "none"]
      [] v.t = "float" ->
            IF v.kind = "inf" THEN [ok |-> FALSE, n |-> 0, raises |-> "OverflowError"]
            ELSE IF v.kind = "nan" THEN [ok |-> FALSE, n |-> 0, raises |-> "ValueError"]
            ELSE [ok |-> TRUE, n |-> FloatTruncated(v), raises |-> "none"]
      [] v.t = "str" ->
            IF IsIntText(v.s) THEN [ok |-> TRUE, n |-> IntTextValue(v.s), raises |-> "none"]
            ELSE [ok |-> FALSE, n |-> 0, raises |-> "ValueError"]
      [] OTHER -> [ok |-> FALSE, n |-> 0, raises |-> "TypeError"]

\* d.get(key, default) on a dict modelled as a function
Get(d, key, default) == IF key \in DOMAIN d THEN d[key] ELSE default

\* x[::-1]
Reversed(x) == [k \in 1..Len(x) |-> x[Len(x) + 1 - k]]

\* x.index(val): position (0-based) of the first occurrence
IndexOf(x, val) ==
    (CHOOSE k \in 1..Len(x) : x[k] = val /\ \A j \in 1..(k - 1) : x[j] # val) - 1

(***************************************************************************)
(* Constants of app.py                                                     *)
(***************************************************************************)

K_timestamp == <<"t", "i", "m", "e", "s", "t", "a", "m", "p">>
K_user_id == <<"u", "s", "e", "r", "_", "i", "d">>
K_item_index == <<"i", "t", "e", "m", "_", "i", "n", "d", "e", "x">>
K_source_userid == <<"s", "o", "u", "r", "c", "e", "_", "u", "s", "e", "r", "i", "d">>
K_baseline_on_left == <<"b", "a", "s", "e", "l", "i", "n", "e", "_", "o", "n", "_", "l", "e", "f", "t">>
K_kyushu_student == <<"k", "y", "u", "s", "h", "u", "_", "s", "t", "u", "d", "e", "n", "t">>
K_info_course_taken == <<"i", "n", "f", "o", "_", "c", "o", "u", "r", "s", "e", "_", "t", "a", "k", "e", "n">>
K_info_course_grade == <<"i", "n", "f", "o", "_", "c", "o", "u", "r", "s", "e", "_", "g", "r", "a", "d", "e">>
K_accuracy == <<"a", "c", "c", "u", "r", "a", "c", "y">>
K_readability == <<"r", "e", "a", "d", "a", "b", "i", "l", "i", "t", "y">>
K_persuasiveness == <<"p", "e", "r", "s", "u", "a", "s", "i", "v", "e", "n", "e", "s", "s">>
K_actionability == <<"a", "c", "t", "i", "o", "n", "a", "b", "i", "l", "i", "t", "y">>
K_hallucination == <<"h", "a", "l", "l", "u", "c", "i", "n", "a", "t", "i", "o", "n">>
K_usefulness == <<"u", "s", "e", "f", "u", "l", "n", "e", "s", "s">>
K_overall == <<"o", "v", "e", "r", "a", "l", "l">>
K_comment == <<"c", "o", "m", "m", "e", "n", "t">>
K_userid == <<"u", "s", "e", "r", "i", "d">>

\* the column order of a saved row, which is also the header row
CSV_COLUMNS ==
    << K_timestamp, K_user_id, K_item_index, K_source_userid, K_baseline_on_left,
       K_kyushu_student, K_info_course_taken, K_info_course_grade, K_accuracy,
       K_readability, K_persuasiveness, K_actionability, K_hallucination,
       K_usefulness, K_overall, K_comment >>

\* the five labels of the scale, from "A is much better" to "B is much better"
RATING_SCALE ==
    << <<"A", "_", "s", "t", "r", "o", "n", "g">>,
       <<"A", "_", "s", "o", "m", "e">>,
       <<"n", "e", "u", "t", "r", "a", "l">>,
       <<"B", "_", "s", "o", "m", "e">>,
       <<"B", "_", "s", "t", "r", "o", "n", "g">> >>

\* the criteria of the form, in the order of `questions`
QuestionFields ==
    << K_readability, K_persuasiveness, K_actionability, K_hallucination, K_usefulness >>

\* the placeholder of the two required select boxes
SelectPlaceholder == <<"-", "-">>

AdminId == <<"a", "d", "m", "i", "n", "_", "m", "s", "1", "3", "3", "7", "9">>

(***************************************************************************)
(* The worksheet: rows of cell texts.  Every call of the gspread API is one *)
(* request to the spreadsheet service: append_row stores the text of each  *)
(* value after the last row; get_all_values returns the texts (no rows for *)
(* an empty sheet); get_all_records takes the first row as the keys and    *)
(* returns every other row with its values numericised (a text that int()  *)
(* or float() accepts comes back as a number).                             *)
(***************************************************************************)

\* the text a value has in its cell
CellText(v) ==
    CASE v.t = "bool" -> IF v.n = 1 THEN <<"T", "R", "U", "E">> ELSE <<"F", "A", "L", "S", "E">>
      [] v.t = "none" -> <<>>
      [] OTHER -> PyStr(v)

\* worksheet.append_row(values)
AppendRow(sh, values) == Append(sh, [k \in 1..Len(values) |-> CellText(values[k])])

\* the value get_all_records returns for a cell text
Numericise(s) ==
    IF \E k \in 1..Len(s) : s[k] = "_" THEN StrV(s)
    ELSE IF IsIntLiteral(s) THEN IntV(IntLiteralValue(s))
    ELSE IF IsFloatLiteral(s) THEN FloatLiteralValue(s)
    ELSE StrV(s)

\* position of the column named key in the header row
ColumnOf(header, key) == CHOOSE k \in 1..Len(header) : header[k] = key

CellAt(row, k) == IF k <= Len(row) THEN row[k] ELSE <<>>

\* worksheet.get_all_records(): [ok, records]; ok = FALSE when the call raises
\* (a header row that repeats a key)
GetAllRecords(sh) ==
    IF Len(sh) = 0 THEN [ok |-> TRUE, records |-> <<>>]
    ELSE LET header == sh[1]
             keys == {header[k] : k \in 1..Len(header)}
         IN  IF Cardinality(keys) # Len(header) THEN [ok |-> FALSE, records |-> <<>>]
             ELSE [ok |-> TRUE,
                   records |->
                       [i \in 1..(Len(sh) - 1) |->
                           [key \in keys |->
                               Numericise(CellAt(sh[i + 1], ColumnOf(header, key)))]]]

\* init_sheet_header: the values of worksheet.append_row(CSV_COLUMNS)
HeaderValues == [k \in 1..Len(CSV_COLUMNS) |-> StrV(CSV_COLUMNS[k])]

\* Mutant of RowValues: a field the record lacks gets no cell.
RowValuesPresent(record) ==
    LET present == SelectSeq(CSV_COLUMNS, LAMBDA col : col \in DOMAIN record)
    IN  [k \in 1..Len(present) |-> record[present[k]]]

\* save_response: row_values, one value per column in schema order
RowValues(record) == [k \in 1..Len(CSV_COLUMNS) |-> Get(record, CSV_COLUMNS[k], StrV(<<>>))]

(***************************************************************************)
(* Progress tracker                                                        *)
(***************************************************************************)

\* row.get("user_id") or row.get("userid") or ""
RowUid(row) ==
    PyOr(PyOr(Get(row, K_user_id, None), Get(row, K_userid, None)), StrV(<<>>))

\* whether load_user_data takes the row as one of target_uid_str
RowMatches(row, target_uid_str) == Strip(PyStr(RowUid(row))) = target_uid_str

\* the index a matching row adds to answered_indices: [ok, n, raises]; a row
\* without a value adds none and raises nothing; raises: the exception of
\* int(idx_val), of which `except ValueError` catches ValueError alone
RowIndex(row) ==
    LET idx_val == Get(row, K_item_index, None)
    IN  IF idx_val.t # "none" /\ Strip(PyStr(idx_val)) # <<>> THEN PyInt(idx_val)
        ELSE [ok |-> FALSE, n |-> 0, raises |-> "none"]

\* the profile a matching row sets, if its kyushu_student is not empty
RowProfile(row) ==
    << Get(row, K_kyushu_student, None), Get(row, K_info_course_taken, None),
       Get(row, K_info_course_grade, None) >>

\* load_user_data(user_id) on the result of get_all_records:
\* [answered, last_profile], last_profile = <<>> standing for None
LoadUserData(got, user_id) ==
    IF ~got.ok \/ Len(got.records) = 0 THEN [answered |-> {}, last_profile |-> <<>>]
    ELSE LET records == got.records
             target_uid_str == Strip(user_id)
             hits == {i \in 1..Len(records) : RowMatches(records[i], target_uid_str)}
             withProfile == {i \in hits : Truthy(Get(records[i], K_kyushu_student, None))}
         IN  IF \E i \in hits : RowIndex(records[i]).raises \notin {"none", "ValueError"}
             THEN [answered |-> {}, last_profile |-> <<>>]
             ELSE [answered |->
                       {RowIndex(records[i]).n : i \in {j \in hits : RowIndex(records[j]).ok}},
                   last_profile |->
                       IF withProfile = {} THEN <<>>
                       ELSE RowProfile(records[CHOOSE i \in withProfile :
                                                   \A j \in withProfile : j <= i])]

\* get_next_index(all_indices, answered): the first index not answered, or None
GetNextIndex(all_indices, answered) ==
    LET open == {k \in 1..Len(all_indices) : all_indices[k] \notin answered}
    IN  IF open = {} THEN None
        ELSE IntV(all_indices[CHOOSE k \in open : \A j \in open : k <= j])

(***************************************************************************)
(* Seeds and the random generator                                          *)
(***************************************************************************)

\* f"order_{user_id}"
OrderSeedString(user_id) == <<"o", "r", "d", "e", "r", "_">> \o user_id

\* f"{user_id}_{current_index}"
SideSeedString(user_id, current_index) == user_id \o <<"_">> \o PyStr(IntV(current_index))

\* random.Random(int.from_bytes(sha256(s).digest()[:8], "big")): the values
\* _randbelow(n), _randbelow(n - 1), ..., _randbelow(2) that a fresh generator
\* seeded from the string s returns, as element n of the tuple (n = 1..4).
\* Tabulated from hashlib and random for the seed strings of the model.
RngTable(s) ==
    CASE
         s = <<"o", "r", "d", "e", "r", "_", "a", "l", "i", "c", "e">> ->
            << <<>>, <<0>>, <<0, 1>>, <<0, 1, 0>> >>
      [] s = <<"o", "r", "d", "e", "r", "_", "b", "o", "b">> ->
            << <<>>, <<1>>, <<1, 1>>, <<3, 1, 0>> >>
      [] s = <<"o", "r", "d", "e", "r", "_", "7">> ->
            << <<>>, <<0>>, <<0, 0>>, <<1, 2, 0>> >>
      [] s = <<"o", "r", "d", "e", "r", "_", "0", "7">> ->
            << <<>>, <<0>>, <<0, 1>>, <<0, 1, 1>> >>
      [] s = <<"o", "r", "d", "e", "r", "_", "0">> ->
            << <<>>, <<0>>, <<0, 0>>, <<0, 2, 0>> >>
      [] s = <<"a", "l", "i", "c", "e", "_", "0">> ->
            << <<>>, <<0>>, <<0, 0>>, <<0, 0, 1>> >>
      [] s = <<"a", "l", "i", "c", "e", "_", "1">> ->
            << <<>>, <<0>>, <<2, 0>>, <<0, 2, 0>> >>
      [] s = <<"a", "l", "i", "c", "e", "_", "2">> ->
            << <<>>, <<0>>, <<2, 0>>, <<1, 2, 1>> >>
      [] s = <<"a", "l", "i", "c", "e", "_", "3">> ->
            << <<>>, <<1>>, <<2, 1>>, <<2, 0, 0>> >>
      [] s = <<"b", "o", "b", "_", "0">> ->
            << <<>>, <<0>>, <<0, 0>>, <<1, 2, 0>> >>
      [] s = <<"b", "o", "b", "_", "1">> ->
            << <<>>, <<1>>, <<1, 1>>, <<3, 1, 1>> >>
      [] s = <<"b", "o", "b", "_", "2">> ->
            << <<>>, <<1>>, <<1, 1>>, <<3, 1, 1>> >>
      [] s = <<"b", "o", "b", "_", "3">> ->
            << <<>>, <<0>>, <<0, 0>>, <<0, 0, 1>> >>
      [] s = <<"7", "_", "0">> ->
            << <<>>, <<0>>, <<0, 1>>, <<1, 1, 1>> >>
      [] s = <<"7", "_", "1">> ->
            << <<>>, <<0>>, <<2, 0>>, <<1, 0, 0>> >>
      [] s = <<"7", "_", "2">> ->
            << <<>>, <<0>>, <<2, 0>>, <<1, 2, 1>> >>
      [] s = <<"7", "_", "3">> ->
            << <<>>, <<1>>, <<1, 0>>, <<3, 0, 0>> >>
      [] s = <<"0", "7", "_", "0">> ->
            << <<>>, <<0>>, <<2, 0>>, <<0, 1, 1>> >>
      [] s = <<"0", "7", "_", "1">> ->
            << <<>>, <<0>>, <<0, 1>>, <<0, 1, 1>> >>
      [] s = <<"0", "7", "_", "2">> ->
            << <<>>, <<1>>, <<2, 1>>, <<3, 0, 0>> >>
      [] s = <<"0", "7", "_", "3">> ->
            << <<>>, <<0>>, <<0, 0>>, <<0, 0, 0>> >>
      [] s = <<"0", "_", "0">> ->
            << <<>>, <<1>>, <<1, 0>>, <<3, 2, 0>> >>
      [] s = <<"0", "_", "1">> ->
            << <<>>, <<1>>, <<1, 0>>, <<2, 2, 0>> >>
      [] s = <<"0", "_", "2">> ->
            << <<>>, <<1>>, <<1, 0>>, <<3, 0, 0>> >>
      [] s = <<"0", "_", "3">> ->
            << <<>>, <<0>>, <<0, 1>>, <<0, 1, 1>> >>

\* the draws of one shuffle of a list of n elements
RandBelowDraws(s, n) == IF n < 2 THEN <<>> ELSE RngTable(s)[n]

\* x[i], x[j] = x[j], x[i] (0-based)
Swap(x, i, j) ==
    [k \in 1..Len(x) |-> IF k = i + 1 THEN x[j + 1] ELSE IF k = j + 1 THEN x[i + 1] ELSE x[k]]

\* for i in reversed(range(1, len(x))): j = randbelow(i + 1); swap
RECURSIVE ShuffleStep(_, _, _)
ShuffleStep(x, js, i) ==
    IF i < 1 THEN x ELSE ShuffleStep(Swap(x, i, js[Len(x) - i]), js, i - 1)

\* Mutant of Shuffle: the generator is seeded from the clock as well, so the
\* order is not a function of the participant alone.
ShuffleClockSeeded(x, s) ==
    IF now % 2 = 0 THEN ShuffleStep(x, RandBelowDraws(s, Len(x)), Len(x) - 1)
    ELSE Reversed(ShuffleStep(x, RandBelowDraws(s, Len(x)), Len(x) - 1))

\* random.Random(seed).shuffle(x) with the seed of the string s
Shuffle(x, s) == ShuffleStep(x, RandBelowDraws(s, Len(x)), Len(x) - 1)

\* rng.choice([True, False]) of a fresh generator seeded from f"{user_id}_{current_index}"
BaselineOnLeft(user_id, current_index) ==
    RandBelowDraws(SideSeedString(user_id, current_index), 2)[1] = 0

(***************************************************************************)
(* load_items.  A dataset is the sequence of its entries in iteration      *)
(* order, an entry [key, userid, user_id]: its top-level key and the       *)
(* values under "userid" and "user_id" (None when the field is absent).    *)
(* The payload fields of an item (grade, response, advice title and body)  *)
(* are those of the two entries it pairs, which the item names by key.     *)
(***************************************************************************)

Keys(d) == {d[k].key : k \in 1..Len(d)}

\* candidates = [top_key] + the non-empty strings under userid / user_id
Candidates(e) ==
    <<e.key>>
        \o (IF e.userid.t = "str" /\ e.userid.s # <<>> THEN <<e.userid.s>> ELSE <<>>)
        \o (IF e.user_id.t = "str" /\ e.user_id.s # <<>> THEN <<e.user_id.s>> ELSE <<>>)

\* Mutant of Register: a later entry replaces the one registered under an alias.
RegisterLastWins(m, e) ==
    LET c == Candidates(e)
        new == {c[k] : k \in 1..Len(c)}
    IN  [uid \in DOMAIN m \cup new |-> IF uid \in new THEN e ELSE m[uid]]

\* for uid in candidates: if uid not in m: m[uid] = entry
Register(m, e) ==
    LET c == Candidates(e)
        new == {c[k] : k \in 1..Len(c)}
    IN  [uid \in DOMAIN m \cup new |-> IF uid \in DOMAIN m THEN m[uid] ELSE e]

\* build_user_map(d): alias -> entry, the first entry registered wins
RECURSIVE BuildUserMap(_)
BuildUserMap(d) ==
    IF d = <<>> THEN [uid \in {} |-> uid]
    ELSE Register(BuildUserMap(SubSeq(d, 1, Len(d) - 1)), d[Len(d)])

\* Mutant of CommonUserids: the alias maps are matched whether or not the
\* documents share top-level keys.
CommonUseridsByAlias(baseline, advice) ==
    Sorted(DOMAIN BuildUserMap(baseline) \cap DOMAIN BuildUserMap(advice))

\* the matched subjects: shared top-level keys, else shared aliases; sorted
CommonUserids(baseline, advice) ==
    LET top_keys_common == Sorted(Keys(baseline) \cap Keys(advice))
    IN  IF top_keys_common # <<>> THEN top_keys_common
        ELSE Sorted(DOMAIN BuildUserMap(baseline) \cap DOMAIN BuildUserMap(advice))

InSeq(x, s) == \E k \in 1..Len(s) : s[k] = x

\* Mutant of Prioritize: an allow-list entry is taken every time it occurs.
RECURSIVE PrioritizeKeepDuplicates(_, _)
PrioritizeKeepDuplicates(allow, common_userids) ==
    IF allow = <<>> THEN <<>>
    ELSE LET before == PrioritizeKeepDuplicates(SubSeq(allow, 1, Len(allow) - 1), common_userids)
             uid == allow[Len(allow)]
         IN  IF InSeq(uid, common_userids) THEN Append(before, uid) ELSE before

\* the loop over use_uid: keep the matched entries, first occurrence only
RECURSIVE Prioritize(_, _)
Prioritize(allow, common_userids) ==
    IF allow = <<>> THEN <<>>
    ELSE LET before == Prioritize(SubSeq(allow, 1, Len(allow) - 1), common_userids)
             uid == allow[Len(allow)]
         IN  IF InSeq(uid, common_userids) /\ ~InSeq(uid, before)
             THEN Append(before, uid) ELSE before

\* prioritized_uids, with the fallback to the whole matched list
PrioritizedUids(allow, common_userids) ==
    LET p == Prioritize(allow, common_userids)
    IN  IF p = <<>> THEN common_userids ELSE p

\* prioritized_uids[:max_items] for max_items >= 0
Truncate(prioritized_uids, max_items) ==
    SubSeq(prioritized_uids, 1,
           IF max_items < Len(prioritized_uids) THEN max_items ELSE Len(prioritized_uids))

\* items_order: the truncated list, shuffled when a user_id is given
ItemsOrder(prioritized_uids, max_items, user_id) ==
    LET items_order == Truncate(prioritized_uids, max_items)
    IN  IF user_id.t = "str" /\ user_id.s # <<>>
        THEN Shuffle(items_order, OrderSeedString(user_id.s))
        ELSE items_order

\* base_entry.get("userid", base_entry.get("user_id", uid))
SourceUserid(base_entry, uid) ==
    IF base_entry.userid.t # "none" THEN base_entry.userid
    ELSE IF base_entry.user_id.t # "none" THEN base_entry.user_id
    ELSE StrV(uid)

\* the record of position idx (0-based) of items_order
ItemRecord(idx, uid, base_map, advice_map) ==
    [item_index |-> idx,
     source_userid |-> SourceUserid(base_map[uid], uid),
     baseline |-> base_map[uid].key,
     advice |-> advice_map[uid].key]

\* Mutant of LoadItems: item_index is the index in the list before the
\* shuffle, and sort_values("item_index") then orders the rows by it.
LoadItemsCanonicalIndex(baseline, advice, allow, max_items, user_id) ==
    LET base_map == BuildUserMap(baseline)
        advice_map == BuildUserMap(advice)
        prioritized_uids == PrioritizedUids(allow, CommonUserids(baseline, advice))
        canonical == Truncate(prioritized_uids, max_items)
    IN  [k \in 1..Len(canonical) |-> ItemRecord(k - 1, canonical[k], base_map, advice_map)]

\* load_items(max_items, user_id=user_id) over the two datasets and use_uid:
\* the rows of the DataFrame in item_index order (<<>> for the empty frame)
LoadItems(baseline, advice, allow, max_items, user_id) ==
    LET base_map == BuildUserMap(baseline)
        advice_map == BuildUserMap(advice)
        prioritized_uids == PrioritizedUids(allow, CommonUserids(baseline, advice))
        items_order == ItemsOrder(prioritized_uids, max_items, user_id)
    IN  [k \in 1..Len(items_order) |-> ItemRecord(k - 1, items_order[k], base_map, advice_map)]

(***************************************************************************)
(* The verdict normalisation of the submit handler                         *)
(***************************************************************************)

\* local_options: the scale as shown, reversed when the baseline is on the right
LocalOptions(baseline_on_left) ==
    IF baseline_on_left THEN RATING_SCALE ELSE Reversed(RATING_SCALE)

\* Mutant of Normalize: the value is recorded as picked, whatever the side.
NormalizeNoFlip(val, baseline_on_left) == val

\* responses[field] for the slider value val
Normalize(val, baseline_on_left) ==
    IF baseline_on_left THEN val
    ELSE RATING_SCALE[IndexOf(LocalOptions(baseline_on_left), val) + 1]

(***************************************************************************)
(* The deployed data: the two JSON documents and the allow-list            *)
(***************************************************************************)

Entry(key, userid, user_id) == [key |-> key, userid |-> userid, user_id |-> user_id]

U1 == <<"u", "1">>
U2 == <<"u", "2">>
U3 == <<"u", "3">>

\* data/worse2.json: entries keyed by subject, without identity fields
BaselineData == << Entry(U1, None, None), Entry(U2, None, None), Entry(U3, None, None) >>

\* data/better_phase2_format.json: as the converter writes it, "userid" = the key
AdviceData ==
    << Entry(U1, StrV(U1), None), Entry(U2, StrV(U2), None), Entry(U3, StrV(U3), None) >>

\* use_uid = correct_uid + incorrect_uid; the first literal of correct_uid is
\* several ids run together (adjacent string literals without commas)
use_uid == << U3 \o U1, U2, U1, U3 >>

\* MAX_ITEMS = len(use_uid)
MAX_ITEMS == Len(use_uid)

(***************************************************************************)
(* One run of the script main() in a browser session, from line 558 to the *)
(* end of the run or to the call of save_response: the part of a run that  *)
(* lies between init_sheet_header and the next write to the worksheet.  It *)
(* reads the worksheet once (get_all_records in load_user_data).           *)
(***************************************************************************)

\* st.session_state of a new session
NewSession == [current_user_id |-> None, current_index |-> None, survey_answers |-> <<>>]

\* nothing rendered
NoView ==
    [status |-> "none", raw |-> <<>>, user_id |-> <<>>, survey |-> <<>>, boxes |-> <<>>,
     answered |-> {}, df_items |-> <<>>, current_index |-> None, baseline_on_left |-> FALSE]

NoSubmission ==
    [some |-> FALSE, user_id |-> <<>>, item_index |-> 0, baseline_on_left |-> FALSE,
     val |-> <<>>, response |-> <<>>]

\* the first option of each of the three select boxes
DefaultBoxes == << SelectPlaceholder, SelectPlaceholder, <<"n", "a">> >>

\* the answers of the three select boxes; the first two are required
SurveyAnswered(survey) == survey[1] # SelectPlaceholder /\ survey[2] # SelectPlaceholder

\* if st.session_state.get("current_user_id") != user_id: reset the session
SwitchUser(ss, user_id) ==
    IF ss.current_user_id # StrV(user_id)
    THEN [current_user_id |-> StrV(user_id), current_index |-> None, survey_answers |-> <<>>]
    ELSE ss

\* what the three select boxes return.  Their keys hold the values of the
\* browser when the run starts; on a user switch the keys are deleted (the
\* boxes fall back to their first option) and, when the log has a profile of the
\* new id, set from it.  (A row the program wrote holds option texts.)
SelectBoxes(ss, user_id, prev_profile, held) ==
    IF ss.current_user_id = StrV(user_id) THEN held
    ELSE IF prev_profile = <<>> THEN DefaultBoxes
    ELSE [k \in 1..3 |-> PyStr(prev_profile[k])]

\* the record the submit handler builds
JudgmentRecord(clock, user_id, row, baseline_on_left, survey, val, comment) ==
    [key \in {K_timestamp, K_user_id, K_item_index, K_source_userid, K_baseline_on_left,
              K_kyushu_student, K_info_course_taken, K_info_course_grade, K_comment}
             \cup {QuestionFields[k] : k \in 1..Len(QuestionFields)} |->
        CASE key = K_timestamp -> StrV(<<"T">> \o NatToStr(clock))
          [] key = K_user_id -> StrV(user_id)
          [] key = K_item_index -> IntV(row.item_index)
          [] key = K_source_userid -> row.source_userid
          [] key = K_baseline_on_left -> BoolV(baseline_on_left)
          [] key = K_kyushu_student -> StrV(survey[1])
          [] key = K_info_course_taken -> StrV(survey[2])
          [] key = K_info_course_grade -> StrV(survey[3])
          [] key = K_comment -> StrV(comment)
          [] OTHER -> StrV(Normalize(val, baseline_on_left))]

\* df_items.loc[df_items["item_index"] == current_index].iloc[0]
RowOf(df_items, current_index) ==
    df_items[CHOOSE k \in 1..Len(df_items) :
                 df_items[k].item_index = current_index
                 /\ \A j \in 1..(k - 1) : df_items[j].item_index # current_index]

\* what a run that stops before the form leaves on the page
Stopped(status, inp) == [NoView EXCEPT !.status = status, !.raw = inp.raw]

\* the result of the run so far: the session state, the page, and for a
\* submission what the handler saw, the record it hands to save_response and the
\* index it will store after the save
Outcome(ss, v, sub, record, next) ==
    [session |-> ss, view |-> v, sub |-> sub, record |-> record, next |-> next]

\* the submit handler up to save_response: normalise, build the record
Submitted(ss3, clock, inp, user_id, answered, all_indices, shown, row, val) ==
    Outcome(ss3, shown,
            [some |-> TRUE, user_id |-> user_id, item_index |-> shown.current_index.n,
             baseline_on_left |-> shown.baseline_on_left, val |-> val,
             response |-> Normalize(val, shown.baseline_on_left)],
            JudgmentRecord(clock, user_id, row, shown.baseline_on_left, shown.survey, val,
                           inp.comment),
            GetNextIndex(all_indices, answered \cup {shown.current_index.n}))

\* the item page: the row of current_index, the side draw, the form
ItemPage(ss3, clock, inp, user_id, answered, df_items, all_indices, shown) ==
    IF ~inp.submitted THEN Outcome(ss3, shown, NoSubmission, <<>>, None)
    ELSE Submitted(ss3, clock, inp, user_id, answered, all_indices, shown,
                   RowOf(df_items, shown.current_index.n),
                   LocalOptions(shown.baseline_on_left)[inp.pos + 1])

\* current_index is set: the completion page, or the item page
Progress(ss3, clock, inp, user_id, answered, boxes, df_items, all_indices) ==
    IF ss3.current_index = None THEN
        Outcome(ss3,
                [Stopped("complete", inp) EXCEPT !.user_id = user_id, !.answered = answered,
                                                 !.df_items = df_items, !.survey = boxes,
                                                 !.boxes = boxes],
                NoSubmission, <<>>, None)
    ELSE ItemPage(ss3, clock, inp, user_id, answered, df_items, all_indices,
                  [status |-> "item", raw |-> inp.raw, user_id |-> user_id,
                   survey |-> boxes, boxes |-> boxes, answered |-> answered,
                   df_items |-> df_items, current_index |-> ss3.current_index,
                   baseline_on_left |-> BaselineOnLeft(user_id, ss3.current_index.n)])

\* all_indices and the first setting of current_index
Items(ss2, clock, inp, user_id, answered, boxes, df_items, all_indices) ==
    IF df_items = <<>> THEN
        Outcome(ss2, [Stopped("no_data", inp) EXCEPT !.boxes = boxes], NoSubmission, <<>>, None)
    ELSE Progress(IF ss2.current_index = None
                  THEN [ss2 EXCEPT !.current_index = GetNextIndex(all_indices, answered)]
                  ELSE ss2,
                  clock, inp, user_id, answered, boxes, df_items, all_indices)

\* the survey, then load_items(MAX_ITEMS, user_id=user_id)
Survey(ss1, clock, inp, user_id, answered, boxes, df_items) ==
    IF ~SurveyAnswered(boxes) THEN
        Outcome(ss1, [Stopped("survey", inp) EXCEPT !.boxes = boxes], NoSubmission, <<>>, None)
    ELSE Items([ss1 EXCEPT !.survey_answers = boxes], clock, inp, user_id, answered, boxes,
               df_items, [k \in 1..Len(df_items) |-> df_items[k].item_index])

\* load_user_data(user_id), the user switch, the select boxes
Loaded(ss, clock, inp, user_id, data) ==
    Survey(SwitchUser(ss, user_id), clock, inp, user_id, data.answered,
           SelectBoxes(ss, user_id, data.last_profile, inp.survey),
           LoadItems(BaselineData, AdviceData, use_uid, MAX_ITEMS, StrV(user_id)))

\* main() from line 558.  got is what worksheet.get_all_records() returns to
\* load_user_data (read only when the run gets that far);
\* inp = [page, raw, survey, submitted, pos, comment]: the page selected, the
\* text of the name box, the values the select boxes hold, whether the form's
\* button was pressed, and then the slider position and the comment.
Page(got, ss, clock, inp, user_id) ==
    IF LoadItems(BaselineData, AdviceData, use_uid, MAX_ITEMS, None) = <<>> THEN
        Outcome(ss, Stopped("no_data", inp), NoSubmission, <<>>, None)
    ELSE IF inp.page = "explain" THEN Outcome(ss, Stopped("explain", inp), NoSubmission, <<>>, None)
    ELSE IF user_id = <<>> THEN Outcome(ss, Stopped("no_user", inp), NoSubmission, <<>>, None)
    ELSE IF user_id = AdminId THEN Outcome(ss, Stopped("admin", inp), NoSubmission, <<>>, None)
    ELSE Loaded(ss, clock, inp, user_id, LoadUserData(got, user_id))

RunPage(got, ss, clock, inp) == Page(got, ss, clock, inp, Strip(inp.raw))

\* the run gets to load_user_data (line 612)
ReadsLog(inp, user_id) ==
    /\ LoadItems(BaselineData, AdviceData, use_uid, MAX_ITEMS, None) # <<>>
    /\ inp.page # "explain"
    /\ user_id # <<>>
    /\ user_id # AdminId

\* st.session_state at the st.* calls of a run, where the run can be stopped:
\* as the run found it (up to line 606), after the user switch (toast 626 to the
\* survey warning 658), after current_index is set (from line 678)
StopStates(got, ss, clock, inp) ==
    IF ~ReadsLog(inp, Strip(inp.raw)) THEN {ss}
    ELSE {ss, SwitchUser(ss, Strip(inp.raw)), RunPage(got, ss, clock, inp).session}

(***************************************************************************)
(* Sessions.  Streamlit runs the script of every browser session in a      *)
(* thread of its own, and the script blocks in each call of the worksheet  *)
(* API (get_all_values and append_row in init_sheet_header, get_all_records *)
(* in load_user_data, append_row in save_response): calls of other         *)
(* sessions fall between them.  A step of a session is one such call       *)
(* together with the script lines that follow it up to the next call, or  *)
(* up to the st.* call at which an event of the browser stops the run;     *)
(* those lines touch nothing but the session's own st.session_state.       *)
(*                                                                         *)
(* call.proc[s] is where session s stands:                                 *)
(*   pc     "idle" (no run), "init" (before get_all_values), "header"      *)
(*          (the sheet was read empty, before append_row(CSV_COLUMNS)),    *)
(*          "page" (main, before line 558), "row" (save_response, before   *)
(*          append_row(row_values))                                        *)
(*   phase  "main" or "save": who called init_sheet_header                 *)
(*   kind   what started the run: "event" (page load or widget event),     *)
(*          "submit" (the form's button), "rerun" (st.rerun())             *)
(*   sub, record, next: the submission, the record and the next index of a *)
(*          run that is inside save_response                               *)
(***************************************************************************)

\* the number of sessions
NumSessions == 2

Sessions == 1..NumSessions

IdleProc ==
    [phase |-> "main", pc |-> "idle", kind |-> "event", sub |-> NoSubmission,
     record |-> <<>>, next |-> None]

\* the script starts: worksheet = get_worksheet(); init_sheet_header(worksheet)
StartRun(kind) == [IdleProc EXCEPT !.pc = "init", !.kind = kind]

\* where a session goes on after init_sheet_header: to line 558 when main
\* called it, to the append of the row when save_response called it
AfterInit(p) == [p EXCEPT !.pc = IF p.phase = "main" THEN "page" ELSE "row"]

\* init_sheet_header: existing = worksheet.get_all_values(); if not existing
ReadExisting(s) ==
    /\ call.proc[s].pc = "init"
    /\ call' = [call EXCEPT !.proc[s] =
                    IF Len(sheet) = 0 THEN [@ EXCEPT !.pc = "header"] ELSE AfterInit(@)]
    /\ UNCHANGED <<sheet, session, view, now, last, ret>>

\* init_sheet_header: get_all_values raises; except Exception: pass
ReadExistingFails(s) ==
    /\ call.proc[s].pc = "init"
    /\ call' = [call EXCEPT !.proc[s] = AfterInit(@)]
    /\ UNCHANGED <<sheet, session, view, now, last, ret>>

\* init_sheet_header: worksheet.append_row(CSV_COLUMNS)
WriteHeader(s) ==
    /\ call.proc[s].pc = "header"
    /\ sheet' = AppendRow(sheet, HeaderValues)
    /\ call' = [call EXCEPT !.proc[s] = AfterInit(@)]
    /\ UNCHANGED <<session, view, now, last, ret>>

\* init_sheet_header: append_row raises; except Exception: pass
WriteHeaderFails(s) ==
    /\ call.proc[s].pc = "header"
    /\ call' = [call EXCEPT !.proc[s] = AfterInit(@)]
    /\ UNCHANGED <<sheet, session, view, now, last, ret>>

(***************************************************************************)
(* The session machine (Spec): the sessions' script runs over the shared   *)
(* worksheet.  SpecSolo is the same machine with one session, SpecFaulty   *)
(* with one session whose calls of the worksheet API may raise.            *)
(***************************************************************************)

\* the number of rows in the sheet up to which the form is submitted
MaxAppends == 3

\* the same when the sessions run side by side
MaxSharedAppends == 2

\* the number of times the form is submitted
MaxSubmits == 3

\* what is typed into the name box
RawIds ==
    { <<>>, <<"b", "o", "b">>,
      <<" ", "b", "o", "b">>,
      <<"0", "7">>,
      <<"7">> }

\* the select boxes: untouched, or answered
Surveys ==
    { DefaultBoxes,
      << <<"y", "e", "s">>, <<"n", "o">>, <<"n", "a">> >> }

\* the select boxes answered another way
OtherBoxes == << <<"n", "o">>, <<"y", "e", "s">>, <<"n", "a">> >>

\* the slider position chosen for the five criteria in a submission
SubmitPositions == {1}

NoCall == [fn |-> "none"]

Init ==
    /\ sheet = <<>>
    /\ session = [s \in Sessions |-> NewSession]
    /\ view = [s \in Sessions |-> NoView]
    /\ now = 0
    /\ last = NoSubmission
    /\ call = [fn |-> "sessions", proc |-> [s \in Sessions |-> IdleProc]]
    /\ ret = <<>>

\* the widget values of a run that is not a submission
RenderInputs ==
    {[page |-> "explain", raw |-> <<>>, survey |-> DefaultBoxes],
     [page |-> "evaluate", raw |-> <<>>, survey |-> DefaultBoxes]}
        \cup {[page |-> "evaluate", raw |-> raw, survey |-> s] :
                  raw \in RawIds \ {<<>>}, s \in Surveys}
        \cup {[page |-> "evaluate", raw |-> <<"b", "o", "b">>, survey |-> OtherBoxes]}

\* the widget values of the runs of session s when the sessions run side by
\* side: the evaluation page with the survey answered, under "07" or "bob" in
\* the first session, under "bob" in the others
SharedInputs(s) ==
    {[page |-> "evaluate", raw |-> raw, survey |-> << <<"y", "e", "s">>, <<"n", "o">>, <<"n", "a">> >>] :
         raw \in IF s = 1 THEN {<<"0", "7">>, <<"b", "o", "b">>} ELSE {<<"b", "o", "b">>}}

\* the widget values the page shown holds
Widgets(v) == [page |-> "evaluate", raw |-> v.raw, survey |-> v.boxes]

\* the inputs of a run: the widget values, the button of the form, the slider
Input(w, submitted, pos) ==
    [page |-> w.page, raw |-> w.raw, survey |-> w.survey,
     submitted |-> submitted, pos |-> pos, comment |-> <<>>]

\* a page load or a widget event of session s: the script starts.  (It also
\* replaces a rerun that has not read the worksheet yet.)
Event(s) ==
    /\ \/ call.proc[s].pc = "idle"
       \/ call.proc[s].pc = "init" /\ call.proc[s].kind = "rerun"
    /\ call' = [call EXCEPT !.proc[s] = StartRun("event")]
    /\ UNCHANGED <<sheet, session, view, now, last, ret>>

\* the button of the form on the item page of session s: the script starts
PressSubmit(s, appends) ==
    /\ call.proc[s].pc = "idle"
    /\ view[s].status = "item"
    /\ Len(sheet) + Cardinality({t \in Sessions : call.proc[t].kind = "submit"}) <= appends
    /\ now < MaxSubmits
    /\ call' = [call EXCEPT !.proc[s] = StartRun("submit")]
    /\ UNCHANGED <<sheet, session, view, now, last, ret>>

\* the state after a run of session s that ended without a submission
Ended(s, r) ==
    /\ session' = [session EXCEPT ![s] = r.session]
    /\ view' = [view EXCEPT ![s] = r.view]
    /\ call' = [call EXCEPT !.proc[s] = IdleProc]
    /\ UNCHANGED <<sheet, now, last, ret>>

\* main from line 558 to its end, in a run started by an event (widget values
\* w) or by st.rerun() (the values of the page); got: get_all_records
RunToEnd(s, w, got) ==
    /\ call.proc[s].pc = "page"
    /\ \/ call.proc[s].kind = "event"
       \/ call.proc[s].kind = "rerun" /\ w = Widgets(view[s])
    /\ Ended(s, RunPage(got, session[s], now, Input(w, FALSE, 0)))

\* An event arrives while the run of session s is under way: the run goes on to
\* its next st.* call, where Streamlit stops it, and the script starts again
\* with the new widget values.  The page is not redrawn; st.session_state is
\* left as the run had it at that call.  (A press of the form's button in the
\* stopped run is lost: the handler lies behind the last st.* call.  A run
\* inside init_sheet_header or save_response reaches no st.* call before its
\* next worksheet call.)
RunStopped(s, w, got) ==
    /\ call.proc[s].pc = "page"
    /\ call.proc[s].kind = "event" \/ w = Widgets(view[s])
    /\ \E ss \in StopStates(got, session[s], now, Input(w, FALSE, 0)) :
           /\ session' = [session EXCEPT ![s] = ss]
           /\ call' = [call EXCEPT !.proc[s] = StartRun("event")]
    /\ UNCHANGED <<sheet, view, now, last, ret>>

\* the state after the submitted run of session s has built its record:
\* save_response begins
Saving(s, r) ==
    /\ session' = [session EXCEPT ![s] = r.session]
    /\ view' = [view EXCEPT ![s] = r.view]
    /\ call' = [call EXCEPT !.proc[s] =
                    IF r.sub.some
                    THEN [phase |-> "save", pc |-> "init", kind |-> "submit", sub |-> r.sub,
                          record |-> r.record, next |-> r.next]
                    ELSE IdleProc]
    /\ now' = now + 1
    /\ UNCHANGED <<sheet, last, ret>>

\* main from line 558 to save_response, in the run the form's button started
RunToSave(s, pos, got) ==
    /\ call.proc[s].pc = "page"
    /\ call.proc[s].kind = "submit"
    /\ Saving(s, RunPage(got, session[s], now, Input(Widgets(view[s]), TRUE, pos)))

\* save_response: worksheet.append_row(row_values); then main stores the next
\* index and calls st.rerun(), which starts the script again
SaveRow(s) ==
    /\ call.proc[s].pc = "row"
    /\ sheet' = AppendRow(sheet, RowValues(call.proc[s].record))
    /\ session' = [session EXCEPT ![s].current_index = call.proc[s].next]
    /\ last' = call.proc[s].sub
    /\ call' = [call EXCEPT !.proc[s] = StartRun("rerun")]
    /\ UNCHANGED <<view, now, ret>>

\* save_response: append_row raises; the exception ends the run
SaveRowFails(s) ==
    /\ call.proc[s].pc = "row"
    /\ view' = [view EXCEPT ![s] = [@ EXCEPT !.status = "error"]]
    /\ call' = [call EXCEPT !.proc[s] = IdleProc]
    /\ UNCHANGED <<sheet, session, now, last, ret>>

\* the browser session ends (tab closed, server restarted): a new one starts empty
Restart(s) ==
    /\ call.proc[s].pc = "idle"
    /\ view[s].status # "none"
    /\ session' = [session EXCEPT ![s] = NewSession]
    /\ view' = [view EXCEPT ![s] = NoView]
    /\ UNCHANGED <<sheet, now, last, call, ret>>

\* get_all_records raises
ReadFailure == [ok |-> FALSE, records |-> <<>>]

\* the steps of session s in which every call of the worksheet API returns
SessionStep(s, inputs, appends) ==
    \/ Event(s)
    \/ PressSubmit(s, appends)
    \/ ReadExisting(s)
    \/ WriteHeader(s)
    \/ \E w \in inputs \cup {Widgets(view[s])} : RunToEnd(s, w, GetAllRecords(sheet))
    \/ \E w \in inputs \cup {Widgets(view[s])} : RunStopped(s, w, GetAllRecords(sheet))
    \/ \E pos \in SubmitPositions : RunToSave(s, pos, GetAllRecords(sheet))
    \/ SaveRow(s)
    \/ Restart(s)

\* the steps of session s in which a call of the worksheet API raises
FailureStep(s, inputs) ==
    \/ ReadExistingFails(s)
    \/ WriteHeaderFails(s)
    \/ \E w \in inputs \cup {Widgets(view[s])} : RunToEnd(s, w, ReadFailure)
    \/ \E w \in inputs \cup {Widgets(view[s])} : RunStopped(s, w, ReadFailure)
    \/ \E pos \in SubmitPositions : RunToSave(s, pos, ReadFailure)
    \/ SaveRowFails(s)

Next == \E s \in Sessions : SessionStep(s, SharedInputs(s), MaxSharedAppends)

Spec == Init /\ [][Next]_vars

\* one session at a time, no failing call
NextSolo == SessionStep(1, RenderInputs, MaxAppends)

SpecSolo == Init /\ [][NextSolo]_vars

\* one session whose calls of the worksheet API may raise
NextFaulty ==
    SessionStep(1, SharedInputs(1), MaxSharedAppends) \/ FailureStep(1, SharedInputs(1))

SpecFaulty == Init /\ [][NextFaulty]_vars

(***************************************************************************)
(* Direct calls of load_items: the two JSON documents, the allow-list,     *)
(* max_items and user_id are the inputs (SpecItems).  max_items >= 1: with *)
(* max_items = 0 the frame has no item_index column and sort_values raises *)
(***************************************************************************)

\* the largest max_items passed
MaxItemsArg == 3

X == <<"x">>
Y == <<"y">>
ZZ == <<"z", "z">>
A1 == <<"a", "1">>
A2 == <<"a", "2">>
B1 == <<"b", "1">>
B2 == <<"b", "2">>

\* baseline documents, in the iteration order of their top-level keys
BaselineDocs ==
    { BaselineData,
      << Entry(U3, None, None), Entry(U1, None, None) >>,
      << Entry(U1, StrV(X), None), Entry(U2, StrV(X), None) >>,
      << Entry(U2, StrV(U1), None), Entry(U1, None, None) >>,
      << Entry(B1, StrV(X), StrV(Y)), Entry(B2, StrV(Y), None) >>,
      << Entry(B1, None, StrV(X)), Entry(B2, StrV(X), StrV(<<>>)) >> }

\* advice documents
AdviceDocs ==
    { AdviceData,
      << Entry(U2, StrV(U2), None), Entry(U1, StrV(U1), None) >>,
      << Entry(U1, StrV(X), None), Entry(U2, None, None) >>,
      << Entry(A1, StrV(X), None), Entry(A2, StrV(X), None) >>,
      << Entry(A1, StrV(Y), None), Entry(A2, None, StrV(X)) >>,
      << Entry(X, None, None), Entry(A2, StrV(Y), None) >> }

\* allow-lists (use_uid)
AllowLists == { <<>>, <<U2, U1>>, <<U2, U2, ZZ, U1>>, <<ZZ>>, <<X, U3>>, use_uid }

\* the user_id argument: absent, empty, or a participant id
ItemsUserIds == { None, StrV(<<>>), StrV(<<"b", "o", "b">>) }

LoadItemsCalls ==
    [fn : {"load_items"}, baseline : BaselineDocs, advice : AdviceDocs, allow : AllowLists,
     max_items : 1..MaxItemsArg, user_id : ItemsUserIds, done : {FALSE}]

InitItems ==
    /\ sheet = <<>>
    /\ session = NewSession
    /\ view = NoView
    /\ now = 0
    /\ last = NoSubmission
    /\ call \in LoadItemsCalls
    /\ ret = <<>>

\* load_items(max_items, user_id=user_id): the frame returned, and the local
\* items_order it was built from
CallLoadItems ==
    /\ call.fn = "load_items"
    /\ ~call.done
    /\ call' = [call EXCEPT !.done = TRUE]
    /\ ret' = [df |-> LoadItems(call.baseline, call.advice, call.allow, call.max_items,
                                call.user_id),
               items_order |->
                   ItemsOrder(PrioritizedUids(call.allow,
                                              CommonUserids(call.baseline, call.advice)),
                              call.max_items, call.user_id)]
    /\ UNCHANGED <<sheet, session, view, now, last>>

NextItems == CallLoadItems

SpecItems == InitItems /\ [][NextItems]_vars

(***************************************************************************)
(* Direct calls of load_user_data on a worksheet written under the current *)
(* or an older header (SpecTracker)                                        *)
(***************************************************************************)

\* the header of an older sheet: the participant column is named userid
LegacyColumns == << K_timestamp, K_userid, K_item_index >>

\* the texts found in the participant column
UidCells ==
    { <<>>, <<"0">>, <<"7">>, <<"0", "7">>, <<"0", ".", "0">>, <<"1", ".", "5">>,
      <<"b", "o", "b">>, <<" ", "b", "o", "b", " ">> }

\* the user_id argument
TrackerUserIds ==
    { <<"0">>, <<"7">>, <<"0", "7">>, <<"0", ".", "0">>, <<"1", ".", "5">>,
      <<"b", "o", "b">>, <<" ", "b", "o", "b">> }

\* a data row under header: the participant cell, the item_index cell, the rest empty
TrackerRow(header, uid_cell, idx) ==
    [k \in 1..Len(header) |->
        IF header[k] \in {K_user_id, K_userid} THEN uid_cell
        ELSE IF header[k] = K_item_index THEN NatToStr(idx)
        ELSE <<>>]

\* a sheet of two data rows with item_index 0 and 1
TrackerSheets ==
    { << header, TrackerRow(header, c0, 0), TrackerRow(header, c1, 1) >> :
          header \in {CSV_COLUMNS, LegacyColumns}, c0 \in UidCells, c1 \in UidCells }

InitTracker ==
    /\ sheet \in TrackerSheets
    /\ session = NewSession
    /\ view = NoView
    /\ now = 0
    /\ last = NoSubmission
    /\ call \in [fn : {"load_user_data"}, user_id : TrackerUserIds, done : {FALSE}]
    /\ ret = <<>>

\* load_user_data(user_id)
CallLoadUserData ==
    /\ call.fn = "load_user_data"
    /\ ~call.done
    /\ call' = [call EXCEPT !.done = TRUE]
    /\ ret' = LoadUserData(GetAllRecords(sheet), call.user_id)
    /\ UNCHANGED <<sheet, session, view, now, last>>

NextTracker == CallLoadUserData

SpecTracker == InitTracker /\ [][NextTracker]_vars

(***************************************************************************)
(* The slider of one criterion and its normalisation, for a participant    *)
(* and an item (SpecScale)                                                 *)
(***************************************************************************)

\* participant ids
ScaleUserIds ==
    { <<"a", "l", "i", "c", "e">>, <<"b", "o", "b">>, <<"7">>, <<"0", "7">>, <<"0">> }

InitScale ==
    /\ sheet = <<>>
    /\ session = NewSession
    /\ view = NoView
    /\ now = 0
    /\ last = NoSubmission
    /\ call \in [fn : {"submit"}, user_id : ScaleUserIds, current_index : 0..(MAX_ITEMS - 1),
                 pos : 0..(Len(RATING_SCALE) - 1), done : {FALSE}]
    /\ ret = <<>>

\* the side draw, the slider as shown, the value picked at position pos and
\* the value the submit handler records for it
CallSubmitField ==
    /\ call.fn = "submit"
    /\ ~call.done
    /\ call' = [call EXCEPT !.done = TRUE]
    /\ ret' = [baseline_on_left |-> BaselineOnLeft(call.user_id, call.current_index),
               local_options |-> LocalOptions(BaselineOnLeft(call.user_id, call.current_index)),
               val |-> LocalOptions(BaselineOnLeft(call.user_id, call.current_index))[call.pos + 1],
               response |->
                   Normalize(LocalOptions(BaselineOnLeft(call.user_id, call.current_index))[call.pos + 1],
                             BaselineOnLeft(call.user_id, call.current_index))]
    /\ UNCHANGED <<sheet, session, view, now, last>>

NextScale == CallSubmitField

SpecScale == InitScale /\ [][NextScale]_vars

(***************************************************************************)
(* Claims about the session machine (Spec)                                 *)
(***************************************************************************)

\* the data rows of the worksheet, as positions in sheet
DataRows == 2..Len(sheet)

\* the rows of the sheet that are the header row
HeaderRows == {i \in 1..Len(sheet) : sheet[i] = CSV_COLUMNS}

\* the rows that save_response appended
JudgmentRows == (1..Len(sheet)) \ HeaderRows

\* page v shows the items of a participant
ShowsItems(v) == v.status \in {"item", "complete"}

UserIdCol == ColumnOf(CSV_COLUMNS, K_user_id)
ItemIndexCol == ColumnOf(CSV_COLUMNS, K_item_index)
SourceUseridCol == ColumnOf(CSV_COLUMNS, K_source_userid)

\* the subjects of the deployed data before any shuffle, in canonical order
CanonicalSubjects ==
    Truncate(PrioritizedUids(use_uid, CommonUserids(BaselineData, AdviceData)), MAX_ITEMS)

\* two pages agree on what they show for the same participant id: the same
\* presentation order, and the same side for the same item_index
SamePresentation(v, w) ==
    ShowsItems(v) /\ ShowsItems(w) /\ v.user_id = w.user_id =>
        /\ v.df_items = w.df_items
        /\ v.status = "item" /\ w.status = "item" /\ v.current_index = w.current_index
               => v.baseline_on_left = w.baseline_on_left

\* C1: Determinism.  The page a script run leaves in a session shows, for its
\* participant id, the same presentation order and for its (participant id,
\* item_index) the same side as the page any session showed before the run:
\* after a rerun, after submissions by anyone, in a new session, in another
\* session at the same time.
C1_Determinism ==
    [][\A s, t \in Sessions : SamePresentation(view[s], view'[t])]_vars

\* the order of the participant of the last submission has been computed by the
\* run that saved the row and again by the rerun, with the log changed in
\* between, while the other session shows another participant another order and
\* another side
C1_Witness ==
    /\ last.some
    /\ \E s, t \in Sessions :
           /\ call.proc[s].pc = "idle"
           /\ view[s].status = "item"
           /\ view[s].user_id = last.user_id
           /\ view[s].current_index.n # last.item_index
           /\ view[t].status = "item"
           /\ view[t].user_id # view[s].user_id
           /\ view[t].df_items # view[s].df_items
           /\ view[t].baseline_on_left # view[s].baseline_on_left

\* C2: Idempotent resumption (as claimed).  After a judgment for (p, i) has been
\* saved, load_user_data(p) on the log returns a completed set that contains i,
\* and get_next_index returns the first index of the order that is not in it.
C2_IdempotentResumption ==
    last.some =>
        LET answered == LoadUserData(GetAllRecords(sheet), last.user_id).answered
            all_indices == [k \in 1..Len(CanonicalSubjects) |-> k - 1]
            next == GetNextIndex(all_indices, answered)
        IN  /\ last.item_index \in answered
            /\ next = None <=> \A k \in 1..Len(all_indices) : all_indices[k] \in answered
            /\ next # None =>
                   /\ next.n \notin answered
                   /\ \A k \in 1..Len(all_indices) : all_indices[k] < next.n => all_indices[k] \in answered

\* C3: No replay or duplication (as claimed).  The item shown is never in the
\* participant's completed set, and no two rows of the log have the same
\* participant id and item_index.
C3_NoReplayNoDuplicate ==
    /\ \A s \in Sessions :
           view[s].status = "item" /\ call.proc[s].pc = "idle" =>
               view[s].current_index.n
                   \notin LoadUserData(GetAllRecords(sheet), view[s].user_id).answered
    /\ \A i, j \in JudgmentRows :
           i # j => ~(/\ sheet[i][UserIdCol] = sheet[j][UserIdCol]
                      /\ sheet[i][ItemIndexCol] = sheet[j][ItemIndexCol])

\* C4 (as claimed): the item_index of every item is the index of its subject in
\* the list before the shuffle.
C4_CanonicalIndex ==
    \A s \in Sessions :
        ShowsItems(view[s]) =>
            \A k \in 1..Len(view[s].df_items) :
                view[s].df_items[k].item_index
                    = IndexOf(CanonicalSubjects, view[s].df_items[k].source_userid.s)

\* the order load_items(user_id=p) returns, as the amended claim has it: the
\* subjects shuffled for p, numbered 0..N-1 in that order
PresentationOrder(df_items, p) ==
    LET order == Shuffle(CanonicalSubjects, OrderSeedString(p))
    IN  /\ Len(df_items) = Len(order)
        /\ \A k \in 1..Len(order) :
               /\ df_items[k].item_index = k - 1
               /\ df_items[k].source_userid = StrV(order[k])

\* C4 (amended): item_index is the position of the subject in the participant's
\* shuffled presentation order: the rows of load_items(user_id=p) carry 0..N-1 in
\* order over the shuffled subjects, and every saved row pairs its item_index
\* with the subject at that position of the shuffle for the row's participant.
C4_PresentationIndex ==
    /\ \A s \in Sessions :
           ShowsItems(view[s]) => PresentationOrder(view[s].df_items, view[s].user_id)
    /\ \A i \in JudgmentRows :
           LET order == Shuffle(CanonicalSubjects, OrderSeedString(sheet[i][UserIdCol]))
               idx == IntLiteralValue(sheet[i][ItemIndexCol])
           IN  sheet[i][SourceUseridCol] = order[idx + 1]

\* a saved row whose item_index is not the canonical index of its subject
C4_Witness ==
    \E i \in JudgmentRows :
        IntLiteralValue(sheet[i][ItemIndexCol]) # IndexOf(CanonicalSubjects, sheet[i][SourceUseridCol])

(***************************************************************************)
(* Claims about load_user_data (SpecTracker)                               *)
(***************************************************************************)

\* the value of the participant column of a record, under whichever alias
\* the header has
ParticipantValue(row) == IF K_user_id \in DOMAIN row THEN row[K_user_id] ELSE row[K_userid]

\* C5: Schema-tolerant participant matching (as claimed).  load_user_data(p)
\* takes a row as one of p exactly when the value of its participant column
\* (string, integer or float, under user_id or userid), converted to a string
\* and trimmed, equals the trimmed p.  Row i of the sheet has item_index i - 1,
\* so the rows taken are those whose index is in the completed set returned.
C5_SchemaTolerantMatching ==
    call.fn = "load_user_data" /\ call.done =>
        LET records == GetAllRecords(sheet).records
        IN  \A i \in 1..Len(records) :
                (i - 1 \in ret.answered)
                    <=> Strip(PyStr(ParticipantValue(records[i]))) = Strip(call.user_id)

(***************************************************************************)
(* Claims about load_items (SpecItems)                                     *)
(***************************************************************************)

ItemsDone == call.fn = "load_items" /\ call.done

Elems(s) == {s[k] : k \in 1..Len(s)}

Min(a, b) == IF a < b THEN a ELSE b

\* the aliases of the entries of a document: top-level keys and the non-empty
\* strings under userid / user_id
Aliases(d) == UNION {Elems(Candidates(d[k])) : k \in 1..Len(d)}

\* the matched subject set M of the call
Matched ==
    IF Keys(call.baseline) \cap Keys(call.advice) # {}
    THEN Keys(call.baseline) \cap Keys(call.advice)
    ELSE Aliases(call.baseline) \cap Aliases(call.advice)

FirstPos(L, x) == CHOOSE k \in 1..Len(L) : L[k] = x /\ \A j \in 1..(k - 1) : L[j] # x

\* the subjects to output: the allow-list entries that are matched, or all of M
Selected ==
    IF Elems(call.allow) \cap Matched # {} THEN Elems(call.allow) \cap Matched ELSE Matched

\* the order of the output: first occurrence in the allow-list, or lexicographic
Before(x, y) ==
    IF Elems(call.allow) \cap Matched # {}
    THEN FirstPos(call.allow, x) < FirstPos(call.allow, y)
    ELSE StrLess(x, y)

\* C6: Subject selection.  Without user_id, the output is the first max_items
\* subjects of: the allow-list entries that are in M, in order of first
\* occurrence, without duplicates, entries outside M skipped; or, when no entry
\* of the allow-list is in M, all of M in lexicographic order.  The items are
\* numbered 0.. in that order.  For L = [u2, u1] and max_items = 2 (u1, u2 in M)
\* the result is [0: u2, 1: u1].
C6_SubjectSelection ==
    ItemsDone /\ ~Truthy(call.user_id) =>
        LET out == ret.items_order
        IN  /\ Len(out) = Min(call.max_items, Cardinality(Selected))
            /\ Elems(out) \subseteq Selected
            /\ \A i, j \in 1..Len(out) : i < j => Before(out[i], out[j])
            /\ \A x \in Selected \ Elems(out) : \A i \in 1..Len(out) : Before(out[i], x)
            /\ Len(ret.df) = Len(out)
            /\ \A k \in 1..Len(out) : ret.df[k].item_index = k - 1
            /\ (call.allow = <<U2, U1>> /\ call.max_items = 2 /\ {U1, U2} \subseteq Matched
                    => out = <<U2, U1>>)

\* an allow-list with a repeated entry and an entry outside M, of which the
\* first max_items matched entries are output and a matched one is cut off
C6_Witness ==
    /\ ItemsDone
    /\ call.user_id = None
    /\ \E i, j \in 1..Len(call.allow) : i # j /\ call.allow[i] = call.allow[j]
    /\ Elems(call.allow) \ Matched # {}
    /\ ret.items_order # <<>>
    /\ Elems(ret.items_order) \subseteq Elems(call.allow)
    /\ Len(ret.items_order) < Cardinality(Elems(call.allow) \cap Matched)

SameKeys == Keys(call.baseline) = Keys(call.advice)

\* C7 (as claimed): Reconciliation completeness.  When the two documents have
\* the same set K of top-level keys, load_items(max_items = m) returns exactly
\* min(m, |K|) items.
C7_ReconciliationCompleteness ==
    ItemsDone /\ SameKeys =>
        Len(ret.df) = Min(call.max_items, Cardinality(Keys(call.baseline)))

\* C7 (amended): when the two documents have the same set K of top-level keys
\* and m >= 1, load_items(max_items = m) returns min(m, n) items, where n is the
\* number of distinct allow-list entries that are in K if there is one, and |K|
\* if the allow-list has no entry in K.
C7_CompletenessWithinAllowList ==
    ItemsDone /\ SameKeys =>
        LET K == Keys(call.baseline)
            hit == Elems(call.allow) \cap K
        IN  Len(ret.df) =
                Min(call.max_items, IF hit # {} THEN Cardinality(hit) ELSE Cardinality(K))

\* documents with the same keys of which the allow-list names some but not all:
\* fewer items than min(m, |K|) are returned
C7_Witness ==
    /\ ItemsDone
    /\ SameKeys
    /\ Elems(call.allow) \cap Keys(call.baseline) # {}
    /\ Len(ret.df) = Cardinality(Elems(call.allow) \cap Keys(call.baseline))
    /\ Len(ret.df) < Min(call.max_items, Cardinality(Keys(call.baseline)))

\* the key of the first entry of document d that has uid among its aliases
FirstWith(d, uid) ==
    d[CHOOSE k \in 1..Len(d) :
          /\ uid \in Elems(Candidates(d[k]))
          /\ \A j \in 1..(k - 1) : uid \notin Elems(Candidates(d[j]))].key

\* C8: Reconciliation fallback.  When the two documents have disjoint top-level
\* keys but share an alias, load_items returns a non-empty list, every item of
\* which is a shared alias paired with the first baseline entry and the first
\* advice entry registered under it; when the documents share a top-level key,
\* only shared top-level keys are matched.
C8_ReconciliationFallback ==
    ItemsDone =>
        /\ (/\ Keys(call.baseline) \cap Keys(call.advice) = {}
            /\ Aliases(call.baseline) \cap Aliases(call.advice) # {})
               => /\ ret.df # <<>>
                  /\ \A k \in 1..Len(ret.df) :
                         /\ ret.items_order[k] \in Aliases(call.baseline) \cap Aliases(call.advice)
                         /\ ret.df[k].baseline = FirstWith(call.baseline, ret.items_order[k])
                         /\ ret.df[k].advice = FirstWith(call.advice, ret.items_order[k])
        /\ Keys(call.baseline) \cap Keys(call.advice) # {}
               => Elems(ret.items_order) \subseteq Keys(call.baseline) \cap Keys(call.advice)

\* disjoint keys, and an item whose alias two baseline entries carry
C8_Witness ==
    /\ ItemsDone
    /\ Keys(call.baseline) \cap Keys(call.advice) = {}
    /\ \E k \in 1..Len(ret.df) :
           /\ Cardinality({j \in 1..Len(call.baseline) :
                               ret.items_order[k] \in Elems(Candidates(call.baseline[j]))}) > 1
           /\ ret.df[k].baseline = call.baseline[1].key
           /\ ret.df[k].advice \in Keys(call.advice)

\* C9: Unique subject per item (as claimed).  In every list load_items returns,
\* no two items have the same source_userid.
C9_UniqueSubject ==
    ItemsDone =>
        \A j, k \in 1..Len(ret.df) :
            j # k => ret.df[j].source_userid # ret.df[k].source_userid

(***************************************************************************)
(* Claims about the verdict normalisation (SpecScale)                      *)
(***************************************************************************)

\* C10: Side-flip round trip.  Under a flipped presentation (baseline on the
\* right, the options shown are the scale reversed) the recorded value is the
\* mirror image of the value picked about the midpoint, the midpoint is recorded
\* unchanged, and the same mapping applied to the recorded value gives the value
\* picked; under a non-flipped presentation the recorded value is the value picked.
C10_SideFlipRoundTrip ==
    call.fn = "submit" /\ call.done =>
        IF ret.baseline_on_left
        THEN /\ ret.local_options = RATING_SCALE
             /\ ret.response = ret.val
        ELSE /\ ret.local_options = Reversed(RATING_SCALE)
             /\ IndexOf(RATING_SCALE, ret.response)
                    = Len(RATING_SCALE) - 1 - IndexOf(RATING_SCALE, ret.val)
             /\ (ret.val = RATING_SCALE[3] => ret.response = RATING_SCALE[3])
             /\ Normalize(ret.response, ret.baseline_on_left) = ret.val

\* a flipped presentation in which the first label of the scale is picked and
\* the last is recorded
C10_Witness ==
    /\ call.fn = "submit" /\ call.done
    /\ ~ret.baseline_on_left
    /\ ret.val = RATING_SCALE[1]
    /\ ret.response = RATING_SCALE[5]

(***************************************************************************)
(* Further claims about the session machine (Spec)                         *)
(***************************************************************************)

\* the participant ids the name box yields
Participants == {Strip(raw) : raw \in RawIds} \ {<<>>}

\* the item indices of the rows that participant p has appended
SubmittedBy(p) ==
    {IntLiteralValue(sheet[i][ItemIndexCol]) : i \in {j \in JudgmentRows : sheet[j][UserIdCol] = p}}

\* the completed set load_user_data computes for p on the log as it is
CompletedOf(p) == LoadUserData(GetAllRecords(sheet), p).answered

\* C11: Isolation between participants (as claimed).  Whatever the sessions of
\* the participants have appended, the completed set computed for p is exactly
\* the set of item indices p submitted: the rows of another participant add
\* nothing to it and remove nothing from it, and p's next item is the first
\* index p has not submitted.
C11_Isolation ==
    \A p \in Participants :
        /\ CompletedOf(p) = SubmittedBy(p)
        /\ GetNextIndex([k \in 1..Len(CanonicalSubjects) |-> k - 1], CompletedOf(p))
               = GetNextIndex([k \in 1..Len(CanonicalSubjects) |-> k - 1], SubmittedBy(p))

(***************************************************************************)
(* The two seed strings: the one load_items hashes for the order of a      *)
(* participant and the one main hashes for the side of an item (SpecSeeds) *)
(***************************************************************************)

\* participant ids as the name box accepts them: any non-empty text
SeedUserIds ==
    { <<"0">>, <<"7">>, <<"b", "o", "b">>, <<"a">>, <<"a", "_", "0">>, <<"_", "1">>,
      <<"o", "r", "d", "e", "r">>, <<"o", "r", "d", "e", "r", "_">>,
      <<"o", "r", "d", "e", "r", "_", "a">> }

InitSeeds ==
    /\ sheet = <<>>
    /\ session = NewSession
    /\ view = NoView
    /\ now = 0
    /\ last = NoSubmission
    /\ call \in [fn : {"seeds"}, p : SeedUserIds, q : SeedUserIds,
                 current_index : 0..(MAX_ITEMS - 1), done : {FALSE}]
    /\ ret = <<>>

\* the string hashed by load_items(user_id = p) and the string hashed by main
\* for participant q at current_index
CallSeeds ==
    /\ call.fn = "seeds"
    /\ ~call.done
    /\ call' = [call EXCEPT !.done = TRUE]
    /\ ret' = [order |-> OrderSeedString(call.p),
               side |-> SideSeedString(call.q, call.current_index)]
    /\ UNCHANGED <<sheet, session, view, now, last>>

NextSeeds == CallSeeds

SpecSeeds == InitSeeds /\ [][NextSeeds]_vars

\* C12: Domain separation of seeds (as claimed).  For all non-empty participant
\* ids p, q and all item indices i, the string hashed for the ordering seed of p
\* differs from the string hashed for the side seed of (q, i).
C12_SeedDomainSeparation ==
    call.fn = "seeds" /\ call.done => ret.order # ret.side

(***************************************************************************)
(* The recorder called by concurrent sessions on a sheet that starts       *)
(* empty (SpecRecorder): init_sheet_header as main calls it, save_response *)
(* with records of any shape, load_user_data.  The calls of the worksheet  *)
(* API inside init_sheet_header and save_response are steps of their own,  *)
(* and each may raise.                                                     *)
(***************************************************************************)

\* the number of rows of the sheet up to which save_response is called
MaxSharedRows == 3

\* records handed to save_response: the record of a submission, a record with
\* few fields, one with a field outside the schema, one with values of other
\* types, the empty record
SavedRecords ==
    { JudgmentRecord(1, <<"b", "o", "b">>,
                     LoadItems(BaselineData, AdviceData, use_uid, MAX_ITEMS, None)[1], FALSE,
                     << <<"y", "e", "s">>, <<"n", "o">>, <<"n", "a">> >>,
                     RATING_SCALE[1], <<"o", "k">>),
      (K_user_id :> StrV(<<"0", "7">>)) @@ (K_item_index :> IntV(0)),
      (K_user_id :> StrV(<<"7">>)) @@ (K_item_index :> IntV(1)) @@ (K_userid :> StrV(X)),
      (K_user_id :> IntV(7)) @@ (K_baseline_on_left :> BoolV(TRUE)) @@ (K_comment :> None),
      [key \in {} |-> None] }

InitRecorder ==
    /\ sheet = <<>>
    /\ session = [s \in Sessions |-> NewSession]
    /\ view = [s \in Sessions |-> NoView]
    /\ now = 0
    /\ last = NoSubmission
    /\ call = [fn |-> "sessions", proc |-> [s \in Sessions |-> IdleProc]]
    /\ ret = <<>>

\* main, lines 554-556: init_sheet_header(ws) is called
BeginInit(s) ==
    /\ call.proc[s].pc \in {"idle", "page"}
    /\ call' = [call EXCEPT !.proc[s] = StartRun("event")]
    /\ UNCHANGED <<sheet, session, view, now, last, ret>>

\* save_response(record) is called: get_worksheet(), init_sheet_header(worksheet)
BeginSave(s, record) ==
    /\ call.proc[s].pc \in {"idle", "page"}
    /\ Len(sheet) < MaxSharedRows
    /\ call' = [call EXCEPT !.proc[s] =
                    [IdleProc EXCEPT !.phase = "save", !.pc = "init", !.kind = "submit",
                                     !.record = record]]
    /\ UNCHANGED <<sheet, session, view, now, last, ret>>

\* save_response: worksheet.append_row(row_values), and the call returns
WriteRow(s) ==
    /\ call.proc[s].pc = "row"
    /\ sheet' = AppendRow(sheet, RowValues(call.proc[s].record))
    /\ call' = [call EXCEPT !.proc[s] = [@ EXCEPT !.phase = "main", !.pc = "idle"]]
    /\ UNCHANGED <<session, view, now, last, ret>>

\* save_response: append_row raises, and so does the call
WriteRowFails(s) ==
    /\ call.proc[s].pc = "row"
    /\ call' = [call EXCEPT !.proc[s] = IdleProc]
    /\ UNCHANGED <<sheet, session, view, now, last, ret>>

\* load_user_data(user_id): reads the sheet
CallReadLog(user_id) ==
    /\ ret' = [user_id |-> user_id, data |-> LoadUserData(GetAllRecords(sheet), user_id)]
    /\ UNCHANGED <<sheet, session, view, now, last, call>>

NextRecorder ==
    \/ \E s \in Sessions :
        \/ BeginInit(s)
        \/ \E record \in SavedRecords : BeginSave(s, record)
        \/ ReadExisting(s)
        \/ ReadExistingFails(s)
        \/ WriteHeader(s)
        \/ WriteHeaderFails(s)
        \/ WriteRow(s)
        \/ WriteRowFails(s)
    \/ \E user_id \in {<<"b", "o", "b">>, <<"7">>} : CallReadLog(user_id)

SpecRecorder == InitRecorder /\ [][NextRecorder]_vars

\* session s takes a step of a save_response call that is under way
SaveStep(s) == call.proc[s].phase = "save" /\ call'.proc[s] # call.proc[s]

\* with this step the call of session s is over
Returns(s) == call'.proc[s].pc = "idle"

\* the row of a record as the claim has it: one text per column of the schema,
\* in schema order, the empty text for a field the record lacks
SchemaRow(record) ==
    [k \in 1..16 |->
        IF CSV_COLUMNS[k] \in DOMAIN record THEN CellText(record[CSV_COLUMNS[k]]) ELSE <<>>]

\* every step keeps the rows of the sheet and adds at most one, at the end
KeepsRows ==
    /\ Len(sheet') \in {Len(sheet), Len(sheet) + 1}
    /\ \A i \in 1..Len(sheet) : sheet'[i] = sheet[i]

RowsOf(p) == Cardinality({i \in JudgmentRows : sheet[i][UserIdCol] = p})

\* C14: Eventual completion (as claimed).  A participant with N items is shown
\* an item only while fewer than N records of theirs are in the log, and is in
\* the 'complete' state exactly from the N-th record on: after N appended
\* records every visit under the id is 'complete', with no item shown.
C14_EventualCompletion ==
    \A s \in Sessions :
        call.proc[s].pc = "idle" =>
            /\ view[s].status = "item" => RowsOf(view[s].user_id) < Len(CanonicalSubjects)
            /\ view[s].status = "complete" => RowsOf(view[s].user_id) = Len(CanonicalSubjects)

(***************************************************************************)
(* load_user_data on a log with rows whose item_index cell is well formed  *)
(* or not (SpecScan)                                                       *)
(***************************************************************************)

\* the header of a sheet without an item_index column
NoIndexColumns == << K_timestamp, K_user_id >>

\* the texts found in the item_index column
IdxCells ==
    { <<>>, <<"x">>, <<"0">>, <<"2">>, <<" ", "1">>, <<"1", "_", "0">>, <<"1", ".", "5">>,
      <<"i", "n", "f">> }

\* a data row under header: the participant cell, the item_index cell, the rest empty
ScanRow(header, uid_cell, idx_cell) ==
    [k \in 1..Len(header) |->
        IF header[k] \in {K_user_id, K_userid} THEN uid_cell
        ELSE IF header[k] = K_item_index THEN idx_cell
        ELSE <<>>]

\* sheets of three data rows, of participant bob or of participant 7
ScanSheets ==
    { << header, ScanRow(header, u1, c1), ScanRow(header, u2, c2), ScanRow(header, u3, c3) >> :
          header \in {CSV_COLUMNS}, u1 \in {<<"b", "o", "b">>},
          u2 \in {<<"b", "o", "b">>, <<"7">>}, u3 \in {<<"b", "o", "b">>, <<"7">>},
          c1 \in IdxCells, c2 \in IdxCells, c3 \in IdxCells }
        \cup { << NoIndexColumns, ScanRow(NoIndexColumns, <<"b", "o", "b">>, <<>>) >> }

InitScan ==
    /\ sheet \in ScanSheets
    /\ session = NewSession
    /\ view = NoView
    /\ now = 0
    /\ last = NoSubmission
    /\ call = [fn |-> "scan", user_id |-> <<"b", "o", "b">>, done |-> FALSE]
    /\ ret = <<>>

\* load_user_data(user_id)
CallScan ==
    /\ call.fn = "scan"
    /\ ~call.done
    /\ call' = [call EXCEPT !.done = TRUE]
    /\ ret' = LoadUserData(GetAllRecords(sheet), call.user_id)
    /\ UNCHANGED <<sheet, session, view, now, last>>

NextScan == CallScan

SpecScan == InitScan /\ [][NextScan]_vars

\* the rows of the sheet whose participant cell is p and whose item_index cell
\* is the text of an integer
WellFormedRowsOf(p) ==
    {i \in DataRows :
        /\ sheet[i][ColumnOf(sheet[1], K_user_id)] = p
        /\ K_item_index \in Elems(sheet[1])
        /\ IsIntText(sheet[i][ColumnOf(sheet[1], K_item_index)])}

\* C15: Malformed log records are skipped (as claimed).  The completed set that
\* load_user_data returns for p holds the item_index of every row of p whose
\* item_index is an integer, and nothing else: a row of p whose item_index is
\* missing, empty or not an integer adds nothing and does not stop the scan.
C15_MalformedRowsSkipped ==
    call.fn = "scan" /\ call.done =>
        ret.answered =
            {IntTextValue(sheet[i][ColumnOf(sheet[1], K_item_index)]) :
                 i \in WellFormedRowsOf(call.user_id)}

(***************************************************************************)
(* The header row under concurrent sessions (SpecRecorder)                 *)
(***************************************************************************)

\* C16: Header written once (as claimed).  In any interleaving of
\* init_sheet_header and save_response calls of concurrent sessions on a log
\* that starts empty, a failing emptiness check included, the header row is in
\* the log at most once, and it is the first row of a log that is not empty,
\* ahead of every judgment record.
C16_HeaderWrittenOnce ==
    /\ Cardinality(HeaderRows) <= 1
    /\ Len(sheet) > 0 => sheet[1] = CSV_COLUMNS

=============================================================================
